---- MODULE Spec2Model ----
(***************************************************************************)
(* Model of the admin panel's authenticated API request pipeline           *)
(* (src/src/lib/api/client.ts), the authentication API built on it         *)
(* (lib/api/auth), the auth store (src/src/store/authStore.ts), the admin  *)
(* layout that guards the protected routes, the pages that poll and        *)
(* paginate (E2E tests, system status, users with its confirm dialog), and *)
(* the toast queue (components/ui/Toast.tsx).                              *)
(*                                                                         *)
(* One JavaScript event loop runs everything: an action is the code that   *)
(* runs between two network awaits.  `await`s that only wait for an        *)
(* already received body or for an already settled promise are folded into *)
(* the action that received the response: the continuation behind them     *)
(* reads no shared state that another task could have changed.             *)
(***************************************************************************)
EXTENDS Integers, Sequences, FiniteSets, TLC

(***************************************************************************)
(* Bounds of the model.                                                    *)
(***************************************************************************)
\* number of distinct bearer tokens the backend hands out
NumAuth == 2
\* number of distinct CSRF token bodies the backend hands out
NumTok == 2

(***************************************************************************)
(* Values.  Strings that the code only tests for truthiness and copies are *)
(* sequences of characters; a character is a natural number.  The empty    *)
(* sequence stands for null, undefined and "" alike: every test the code   *)
(* applies to these values (`if (stored)`, `if (csrfToken)`,               *)
(* `if (data.csrf_token)`, `if (token)`) treats the three the same way.    *)
(***************************************************************************)
\* the character '=' ; the other characters are 1..NumTok
EQ == 0

Absent == <<>>

\* tokens without '=', and one token with a trailing '=' (base64 padding)
PlainTokens == { <<c>> : c \in 1..NumTok }
PaddedTokens == { <<1, EQ>> }
CsrfVals == PlainTokens \cup PaddedTokens

\* bearer tokens; 0 is "no item in localStorage"
NoToken == 0
AuthTokens == 1..NumAuth

Methods == {"GET", "POST", "PUT", "DELETE", "PATCH", "HEAD"}
Statuses == {200, 403, 500}

\* what an error body looks like to the client:
\*   nojson   - the body is not JSON
\*   nodetail - JSON without a (truthy) detail
\*   csrf     - detail is a string containing "CSRF"
\*   other    - detail is a string or array without "CSRF"
\*   object   - detail is a truthy value that has no includes method
Details == {"nojson", "nodetail", "csrf", "other", "object"}

\* what a success body holds: nothing, text that is not JSON, or the JSON
\* text of null, of an admin user, a non-admin user, an object without
\* is_admin
Bodies == {"empty", "garbage", "null", "admin", "nonadmin", "noflag"}

Responses == [status : Statuses, detail : Details, ctjson : BOOLEAN, body : Bodies]
NoResp == [status |-> 0, detail |-> "nojson", ctjson |-> FALSE, body |-> "empty"]

\* Response.ok
ok(resp) == resp.status >= 200 /\ resp.status <= 299

\* The responses the model draws: an error response is described by its
\* status and detail, a success response by its content type and body.
ErrResponses == { r \in Responses : ~ok(r) /\ r.ctjson = FALSE /\ r.body = "empty" }
OkResponses == { r \in Responses : ok(r) /\ r.detail = "nojson" }
DrawnResponses == ErrResponses \cup OkResponses

\* a page endpoint answers with no body, with text that is not JSON, with
\* null or with an object; /api/v1/users/me answers with any of the bodies
PageBodies == {"empty", "garbage", "null", "noflag"}
PageResponses == { r \in DrawnResponses : r.body \in PageBodies }

\* components that call useToastState() (the toast container of the layout,
\* of a page)
NumListeners == 2
Components == 1..NumListeners

\* users listed on the users page; 0 is actionUserId's null
NumUsers == 2
NoUser == 0
UserIds == 1..NumUsers

\* confirmModal of a page, as far as the handlers read it
ModalClosed == [isOpen |-> FALSE, isLoading |-> FALSE]

NoOutcome == [kind |-> "none", val |-> "none"]
Returned(v) == [kind |-> "returned", val |-> v]
Thrown(e) == [kind |-> "thrown", val |-> e]

VARIABLES
  \* localStorage
  authToken, refreshToken,
  \* sessionStorage csrf_token, and the csrf_token cookie of document.cookie
  sessCsrf, cookie,
  \* the auth store
  user, isAuthenticated, isLoading, error,
  \* a login() call is waiting for the backend; how the last login() ended
  loginPending, loginResult,
  \* the apiRequest call in progress: where it is, who called it, its
  \* method, the headers it built, and what it did so far
  pc, caller, method, hdrAuth, hdrCsrf,
  sends, issuerGets, warned, firstResp, retryResp, outcome,
  \* apiRequest's local newToken: what ensureCsrfToken() returned after a
  \* CSRF rejection
  newToken,
  \* the admin layout: the pathname it renders, its loading and isAdmin
  \* state, where the checkAdmin effect of the current pathname is, and
  \* whether a router.push('/login') is on its way
  pathname, layoutLoading, isAdmin, check, pushPending,
  \* the page that is mounted, and its React state.  One page is mounted at
  \* a time, so the state the pages name alike (loading, error, autoRefresh)
  \* is held once.
  mounted, loading, pageError, autoRefresh,
  \* the status page: refreshing, status
  refreshing, systemStatus,
  \* the E2E page: running, clearing, confirmModal, testResults
  running, clearing, confirmModal, testResults,
  \* the users page: page, total
  page, total,
  \* what the mounted page is waiting for: fetches in flight, the Run Test
  \* request, the 2 s timers after it, the stage of Clear All
  fetches, runPending, runTimers, clearStage,
  \* what the last tick of the page's polling timer did
  lastTick,
  \* the polling intervals of the mounted page that are set and not cleared
  pollTimers,
  \* the users page: whether the fetchUsers() issued last is still in flight,
  \* and which query the displayed list and total answer ("none": no
  \* response was applied yet, "latest": the query issued last, "older": a
  \* query issued before it)
  latestInFlight, users,
  \* the users page: actionUserId, the actionUserId that the onConfirm of
  \* confirmModal closed over, the user the request of a confirmed action
  \* targets while it is in flight, and what the last click on Confirm did
  actionUserId, modalUserId, actionTarget, lastConfirm,
  \* Toast.tsx: toastIdCounter, toasts, toastListeners, and the `state` of
  \* each component that calls useToastState()
  toastIdCounter, toasts, toastListeners, toastState

storageVars == <<authToken, refreshToken>>
csrfVars == <<sessCsrf, cookie>>
storeVars == <<user, isAuthenticated, isLoading, error, loginPending, loginResult>>
reqVars == <<pc, caller, method, hdrAuth, hdrCsrf, sends, issuerGets, warned,
             firstResp, retryResp, outcome, newToken>>
vars == <<authToken, refreshToken, sessCsrf, cookie,
          user, isAuthenticated, isLoading, error, loginPending, loginResult,
          pc, caller, method, hdrAuth, hdrCsrf,
          sends, issuerGets, warned, firstResp, retryResp, outcome, newToken,
          pathname, layoutLoading, isAdmin, check, pushPending,
          mounted, loading, pageError, autoRefresh, refreshing, systemStatus,
          running, clearing, confirmModal, testResults, page, total,
          fetches, runPending, runTimers, clearStage, lastTick,
          pollTimers, latestInFlight, users,
          actionUserId, modalUserId, actionTarget, lastConfirm,
          toastIdCounter, toasts, toastListeners, toastState>>
clientVars == <<storageVars, csrfVars, storeVars, reqVars>>
layoutVars == <<pathname, layoutLoading, isAdmin, check, pushPending>>
usersVars == <<latestInFlight, users, actionUserId, modalUserId, actionTarget,
               lastConfirm>>
toastVars == <<toastIdCounter, toasts, toastListeners, toastState>>
pageState == <<mounted, loading, pageError, autoRefresh, refreshing, systemStatus,
               running, clearing, confirmModal, testResults, page, total,
               fetches, runPending, runTimers, clearStage, lastTick,
               pollTimers, usersVars>>
\* what the pages and the toast container hold
pageVars == <<pageState, toastVars>>

\* apiRequest has returned or thrown.  Its caller's continuation is a
\* microtask: it runs before any other task (a UI event, another response),
\* so nothing else happens while pc is in Terminal.
Terminal == {"success", "failed"}

(***************************************************************************)
(* client.ts: pure parts                                                   *)
(***************************************************************************)
\* 'csrf_token=<v>'.split('=')[1] : the part of v before its first '='
RECURSIVE SplitEq1(_)
SplitEq1(v) ==
  IF v = <<>> THEN <<>>
  ELSE IF Head(v) = EQ THEN <<>>
  ELSE <<Head(v)>> \o SplitEq1(Tail(v))

\* getCsrfToken(): the token it returns and what sessionStorage holds after
getCsrfToken(sess, ck) ==
  IF sess # Absent THEN [token |-> sess, sess |-> sess]
  ELSE IF ck # Absent
       THEN [token |-> SplitEq1(ck), sess |-> SplitEq1(ck)]
       ELSE [token |-> Absent, sess |-> sess]

\* (variant: with a bearer token the issuing endpoint is always asked, the
\* token at hand is not returned)
ensureCsrfToken_refresh(sess, ck, tok) ==
  LET g == getCsrfToken(sess, ck) IN
  IF tok = NoToken THEN [token |-> g.token, sess |-> g.sess, fetch |-> FALSE]
  ELSE [token |-> Absent, sess |-> g.sess, fetch |-> TRUE]

\* ensureCsrfToken() up to its await: the token it already has, or whether
\* it sends a GET to /api/v1/csrf-token
ensureCsrfToken(sess, ck, tok) ==
  LET g == getCsrfToken(sess, ck) IN
  IF g.token # Absent THEN [token |-> g.token, sess |-> g.sess, fetch |-> FALSE]
  ELSE IF tok = NoToken THEN [token |-> Absent, sess |-> g.sess, fetch |-> FALSE]
  ELSE [token |-> Absent, sess |-> g.sess, fetch |-> TRUE]

\* what the GET to the issuing endpoint produced
IssuerResults ==
  { [kind |-> k, token |-> Absent] : k \in {"netfail", "notok"} }
    \cup { [kind |-> "ok", token |-> t] : t \in CsrfVals \cup {Absent} }

\* ensureCsrfToken() after its await: the token it returns
issuedToken(res) == IF res.kind = "ok" THEN res.token ELSE Absent

\* (variant: GET is treated as state-changing too)
isMutating_withGet(m) == m \in {"GET", "POST", "PUT", "DELETE", "PATCH"}

\* ['POST', 'PUT', 'DELETE', 'PATCH'].includes(method)
isMutating(m) == m \in {"POST", "PUT", "DELETE", "PATCH"}

\* response.status === 403 && errorData.detail && errorData.detail.includes('CSRF')
\* (variant: every 403 counts as a CSRF rejection, the detail is not read)
isCsrfRejection_any403(resp) == resp.status = 403

isCsrfRejection(resp) == resp.status = 403 /\ resp.detail = "csrf"

\* if (newToken && method !== 'GET')
\* (variant: the method is not looked at)
shouldRetry_anyMethod(t, m) == t # Absent

shouldRetry(t, m) == t # Absent /\ m # "GET"

\* the error thrown for the first response:
\* errorData.detail ? errorData : { detail: `HTTP ...` }
originalError(resp) ==
  IF resp.detail \in {"csrf", "other", "object"} THEN "backend-detail"
  ELSE "http-status"

\* the error thrown for the retry response:
\* retryResponse.json().catch(() => ({ detail: `HTTP ...` }))
retryError(resp) ==
  CASE resp.detail = "nojson" -> "http-status"
    [] resp.detail = "nodetail" -> "no-detail"
    [] OTHER -> "backend-detail"

\* response.json()
jsonOf(resp) ==
  IF resp.body \in {"empty", "garbage"} THEN Thrown("syntax")
  ELSE Returned(resp.body)

\* the value apiRequest produces for a 2xx first response
successValue(resp) ==
  IF resp.ctjson THEN jsonOf(resp)
  ELSE IF resp.body = "empty" THEN Returned("emptyobj")
  ELSE jsonOf(resp)


(***************************************************************************)
(* lib/api/auth and the store: pure parts                                  *)
(***************************************************************************)
\* the user record a login response carries ("missing": no user field)
LoginUsers == {"admin", "nonadmin", "noflag", "missing"}

\* what POST /api/v1/auth/login produced
LoginResults ==
  { [kind |-> "netfail", detail |-> "nojson", access |-> NoToken, refresh |-> FALSE,
     csrf |-> Absent, user |-> "missing"] }
    \cup { [kind |-> "notok", detail |-> d, access |-> NoToken, refresh |-> FALSE,
            csrf |-> Absent, user |-> "missing"] : d \in Details }
    \cup { [kind |-> "badjson", detail |-> "nojson", access |-> NoToken, refresh |-> FALSE,
            csrf |-> Absent, user |-> "missing"] }
    \cup [kind : {"ok"}, detail : {"nojson"}, access : AuthTokens, refresh : BOOLEAN,
          csrf : CsrfVals \cup {Absent}, user : LoginUsers]

\* lib/api/auth's login() does not read the user record: called on its own,
\* the record it passes on does not matter
ApiLoginResults == { res \in LoginResults : res.user = "missing" }

\* (variant: the message is always 'Login failed')
loginErrorMessage_fixed(res) == "Login failed"

\* error?.detail || 'Login failed'
loginErrorMessage(res) ==
  CASE res.kind = "notok" /\ res.detail = "nojson" -> "http-status"
    [] res.kind = "notok" /\ res.detail \in {"csrf", "other", "object"} -> "backend-detail"
    [] OTHER -> "Login failed"

\* the user the store holds after set({ user: response.user, ... })
loginUser(res) == IF res.user = "missing" THEN "null" ELSE res.user

\* user.is_admin, for the value getCurrentUser() resolved to
isAdminResult(o) == o.kind = "returned" /\ o.val = "admin"

(***************************************************************************)
(* Init: a freshly loaded tab.  localStorage and the cookie jar outlive    *)
(* the tab, sessionStorage and the store start empty.                      *)
(***************************************************************************)
Init ==
  /\ authToken \in {NoToken} \cup AuthTokens
  /\ refreshToken \in {NoToken, authToken}
  /\ sessCsrf = Absent
  /\ cookie \in {Absent} \cup CsrfVals
  /\ user = "null"
  /\ isAuthenticated = FALSE
  /\ isLoading = FALSE
  /\ error = "null"
  /\ loginPending = FALSE
  /\ loginResult = "none"
  /\ pc = "idle"
  /\ caller = "page"
  /\ method = "GET"
  /\ hdrAuth = NoToken
  /\ hdrCsrf = Absent
  /\ sends = 0
  /\ issuerGets = 0
  /\ warned = FALSE
  /\ firstResp = NoResp
  /\ retryResp = NoResp
  /\ outcome = NoOutcome
  /\ newToken = Absent
  /\ pathname = "none"
  /\ layoutLoading = TRUE
  /\ isAdmin = "null"
  /\ check = "none"
  /\ pushPending = FALSE
  /\ mounted = "none"
  /\ loading = FALSE
  /\ pageError = FALSE
  /\ autoRefresh = FALSE
  /\ refreshing = FALSE
  /\ systemStatus = "null"
  /\ running = FALSE
  /\ clearing = FALSE
  /\ confirmModal = ModalClosed
  /\ testResults = <<>>
  /\ page = 1
  /\ total = 0
  /\ fetches = 0
  /\ runPending = FALSE
  /\ runTimers = 0
  /\ clearStage = "none"
  /\ lastTick = "none"
  /\ pollTimers = 0
  /\ latestInFlight = FALSE
  /\ users = "none"
  /\ actionUserId = NoUser
  /\ modalUserId = NoUser
  /\ actionTarget = NoUser
  /\ lastConfirm = "none"
  /\ toastIdCounter = 0
  /\ toasts = <<>>
  /\ toastListeners = <<>>
  /\ toastState = [c \in Components |-> <<>>]

(***************************************************************************)
(* client.ts: apiRequest                                                   *)
(***************************************************************************)
\* (variant: only auth_token is removed)
clearAuthTokens_onlyAccess ==
  /\ authToken' = NoToken
  /\ UNCHANGED refreshToken

\* clearAuthTokens()
clearAuthTokens ==
  /\ authToken' = NoToken
  /\ refreshToken' = NoToken

\* (variant: the catch branch leaves the session as it is)
fetchUser_then_keepOnThrow(o) ==
  IF isAdminResult(o)
  THEN /\ user' = "admin"
       /\ isAuthenticated' = TRUE
       /\ UNCHANGED storageVars
  ELSE IF o.kind = "thrown"
  THEN UNCHANGED <<user, isAuthenticated, authToken, refreshToken>>
  ELSE /\ clearAuthTokens
       /\ user' = "null"
       /\ isAuthenticated' = FALSE

\* fetchUser() after `await getCurrentUser()`: runs in the same turn of the
\* event loop as the end of apiRequest
fetchUser_then(o) ==
  IF isAdminResult(o)
  THEN /\ user' = "admin"
       /\ isAuthenticated' = TRUE
       /\ UNCHANGED storageVars
  ELSE /\ clearAuthTokens
       /\ user' = "null"
       /\ isAuthenticated' = FALSE

\* checkAdmin() of the admin layout after `await fetchUser()`: the store
\* holds a user exactly when /users/me returned an admin
checkAdmin_then(o) ==
  /\ layoutLoading' = FALSE
  /\ IF isAdminResult(o)
     THEN /\ isAdmin' = "true"
          /\ check' = "passed"
          /\ UNCHANGED pushPending
     ELSE /\ pushPending' = TRUE
          /\ check' = "failed"
          /\ UNCHANGED isAdmin
  /\ UNCHANGED pathname

\* apiRequest returns or throws; the caller's continuation runs
Finish(o) ==
  /\ outcome' = o
  /\ pc' = IF o.kind = "returned" THEN "success" ELSE "failed"
  /\ IF caller = "fetchUser"
     THEN /\ fetchUser_then(o)
          /\ UNCHANGED layoutVars
     ELSE IF caller = "checkAdmin"
     THEN /\ fetchUser_then(o)
          /\ checkAdmin_then(o)
     ELSE UNCHANGED <<user, isAuthenticated, authToken, refreshToken, layoutVars>>
  /\ UNCHANGED pageVars

\* apiRequest goes on: nothing is returned yet
Sending(p) ==
  /\ pc' = p
  /\ UNCHANGED <<outcome, user, isAuthenticated, authToken, refreshToken>>
  /\ UNCHANGED pageVars

Going(p) ==
  /\ Sending(p)
  /\ UNCHANGED layoutVars

\* apiRequest up to its first await: the headers, the CSRF token lookup,
\* and either the GET to the issuing endpoint or the send of the request
apiRequest_begin(c, m) ==
  /\ pc = "idle"
  /\ caller' = c
  /\ method' = m
  /\ hdrAuth' = authToken
  /\ firstResp' = NoResp
  /\ retryResp' = NoResp
  /\ LET g == getCsrfToken(sessCsrf, cookie)
         e == ensureCsrfToken(g.sess, cookie, authToken)
         csrfToken == IF g.token # Absent THEN g.token ELSE e.token
     IN IF ~isMutating(m)
        THEN /\ Sending("sent")
             /\ sends' = 1
             /\ UNCHANGED <<sessCsrf, hdrCsrf, issuerGets, warned>>
        ELSE IF g.token = Absent /\ e.fetch
        THEN /\ Sending("csrfFetch")
             /\ sessCsrf' = e.sess
             /\ issuerGets' = issuerGets + 1
             /\ UNCHANGED <<hdrCsrf, sends, warned>>
        ELSE /\ Sending("sent")
             /\ sessCsrf' = IF g.token # Absent THEN g.sess ELSE e.sess
             /\ hdrCsrf' = csrfToken
             /\ warned' = (csrfToken = Absent)
             /\ sends' = 1
             /\ UNCHANGED issuerGets
  /\ UNCHANGED <<cookie, isLoading, error, loginPending, loginResult, newToken>>

\* apiRequest called by a page or by the store
apiRequest_call(c, m) ==
  /\ apiRequest_begin(c, m)
  /\ UNCHANGED layoutVars

\* (variant: without a token the request is given up instead of sent)
apiRequest_csrfFetched_drop(res) ==
  /\ pc = "csrfFetch"
  /\ LET t == issuedToken(res)
     IN /\ sessCsrf' = IF t # Absent THEN t ELSE sessCsrf
        /\ cookie' = IF t # Absent THEN t ELSE cookie
        /\ hdrCsrf' = t
        /\ warned' = (t = Absent)
        /\ IF t # Absent
           THEN /\ sends' = 1
                /\ Going("sent")
           ELSE /\ UNCHANGED sends
                /\ Finish(Thrown("no-csrf"))
  /\ UNCHANGED <<caller, method, hdrAuth, issuerGets, firstResp, retryResp,
                 isLoading, error, loginPending, loginResult, newToken>>

\* the issuing endpoint answers the GET sent before the first send; with
\* the token it issues the backend sets the csrf_token cookie
apiRequest_csrfFetched(res) ==
  /\ pc = "csrfFetch"
  /\ LET t == issuedToken(res)
     IN /\ sessCsrf' = IF t # Absent THEN t ELSE sessCsrf
        /\ cookie' = IF t # Absent THEN t ELSE cookie
        /\ hdrCsrf' = t
        /\ warned' = (t = Absent)
  /\ sends' = 1
  /\ Going("sent")
  /\ UNCHANGED <<caller, method, hdrAuth, issuerGets, firstResp, retryResp,
                 isLoading, error, loginPending, loginResult, newToken>>

\* the endpoint answers the first send
apiRequest_response(resp) ==
  /\ pc = "sent"
  /\ firstResp' = resp
  /\ IF ok(resp)
     THEN /\ Finish(successValue(resp))
          /\ UNCHANGED <<sessCsrf, hdrCsrf, sends, issuerGets, newToken>>
     ELSE IF resp.status = 403 /\ resp.detail = "object"
     THEN /\ Finish(Thrown("typeerror"))
          /\ UNCHANGED <<sessCsrf, hdrCsrf, sends, issuerGets, newToken>>
     ELSE IF isCsrfRejection(resp)
     THEN LET e == ensureCsrfToken(sessCsrf, cookie, authToken)
          IN /\ sessCsrf' = e.sess
             /\ newToken' = e.token
             /\ IF e.fetch
                THEN /\ Going("csrfRefetch")
                     /\ issuerGets' = issuerGets + 1
                     /\ UNCHANGED <<hdrCsrf, sends>>
                ELSE IF shouldRetry(e.token, method)
                THEN /\ Going("retried")
                     /\ hdrCsrf' = e.token
                     /\ sends' = sends + 1
                     /\ UNCHANGED issuerGets
                ELSE /\ Finish(Thrown(originalError(resp)))
                     /\ UNCHANGED <<hdrCsrf, sends, issuerGets>>
     ELSE /\ Finish(Thrown(originalError(resp)))
          /\ UNCHANGED <<sessCsrf, hdrCsrf, sends, issuerGets, newToken>>
  /\ UNCHANGED <<cookie, caller, method, hdrAuth, warned, retryResp,
                 isLoading, error, loginPending, loginResult>>

\* (variant: the retry reads the bearer token from storage again)
apiRequest_csrfRefetched_reread(res) ==
  /\ pc = "csrfRefetch"
  /\ hdrAuth' = authToken
  /\ LET t == issuedToken(res)
     IN /\ sessCsrf' = IF t # Absent THEN t ELSE sessCsrf
        /\ cookie' = IF t # Absent THEN t ELSE cookie
        /\ newToken' = t
        /\ IF shouldRetry(t, method)
           THEN /\ Going("retried")
                /\ hdrCsrf' = t
                /\ sends' = sends + 1
           ELSE /\ Finish(Thrown(originalError(firstResp)))
                /\ UNCHANGED <<hdrCsrf, sends>>
  /\ UNCHANGED <<caller, method, issuerGets, warned, firstResp, retryResp,
                 isLoading, error, loginPending, loginResult>>

\* the issuing endpoint answers the GET sent after a CSRF rejection
apiRequest_csrfRefetched(res) ==
  /\ pc = "csrfRefetch"
  /\ LET t == issuedToken(res)
     IN /\ sessCsrf' = IF t # Absent THEN t ELSE sessCsrf
        /\ cookie' = IF t # Absent THEN t ELSE cookie
        /\ newToken' = t
        /\ IF shouldRetry(t, method)
           THEN /\ Going("retried")
                /\ hdrCsrf' = t
                /\ sends' = sends + 1
           ELSE /\ Finish(Thrown(originalError(firstResp)))
                /\ UNCHANGED <<hdrCsrf, sends>>
  /\ UNCHANGED <<caller, method, hdrAuth, issuerGets, warned, firstResp, retryResp,
                 isLoading, error, loginPending, loginResult>>

\* (variant: a CSRF rejection of the retry is answered by another retry)
apiRequest_retryResponse_again(resp) ==
  /\ pc = "retried"
  /\ retryResp' = resp
  /\ IF ok(resp)
     THEN /\ Finish(jsonOf(resp))
          /\ UNCHANGED sends
     ELSE IF isCsrfRejection(resp)
     THEN /\ Going("retried")
          /\ sends' = sends + 1
     ELSE /\ Finish(Thrown(retryError(resp)))
          /\ UNCHANGED sends
  /\ UNCHANGED <<sessCsrf, cookie, caller, method, hdrAuth, hdrCsrf,
                 issuerGets, warned, firstResp, isLoading, error, loginPending, loginResult,
                 newToken>>

\* (variant: a failed retry throws the error of the first response)
apiRequest_retryResponse_original(resp) ==
  /\ pc = "retried"
  /\ retryResp' = resp
  /\ IF ok(resp)
     THEN Finish(jsonOf(resp))
     ELSE Finish(Thrown(originalError(firstResp)))
  /\ UNCHANGED <<sessCsrf, cookie, caller, method, hdrAuth, hdrCsrf, sends,
                 issuerGets, warned, firstResp, isLoading, error, loginPending, loginResult,
                 newToken>>

\* the endpoint answers the retry
apiRequest_retryResponse(resp) ==
  /\ pc = "retried"
  /\ retryResp' = resp
  /\ IF ok(resp)
     THEN Finish(jsonOf(resp))
     ELSE Finish(Thrown(retryError(resp)))
  /\ UNCHANGED <<sessCsrf, cookie, caller, method, hdrAuth, hdrCsrf, sends,
                 issuerGets, warned, firstResp, isLoading, error, loginPending, loginResult,
                 newToken>>

\* (variant: a rejected first send is sent again)
apiRequest_fetchRejects_resend ==
  /\ pc \in {"sent", "retried"}
  /\ IF pc = "sent"
     THEN /\ Going("retried")
          /\ sends' = sends + 1
     ELSE /\ Finish(Thrown("network"))
          /\ UNCHANGED sends
  /\ UNCHANGED <<sessCsrf, cookie, caller, method, hdrAuth, hdrCsrf,
                 issuerGets, warned, firstResp, retryResp, isLoading, error,
                 loginPending, loginResult, newToken>>

\* fetch() of the request rejects (transport failure), first send or retry
apiRequest_fetchRejects ==
  /\ pc \in {"sent", "retried"}
  /\ Finish(Thrown("network"))
  /\ UNCHANGED <<sessCsrf, cookie, caller, method, hdrAuth, hdrCsrf, sends,
                 issuerGets, warned, firstResp, retryResp, isLoading, error,
                 loginPending, loginResult, newToken>>

\* the call is over: its locals are gone
apiRequest_settled ==
  /\ pc \in Terminal
  /\ pc' = "idle"
  /\ caller' = "page"
  /\ method' = "GET"
  /\ hdrAuth' = NoToken
  /\ hdrCsrf' = Absent
  /\ sends' = 0
  /\ issuerGets' = 0
  /\ warned' = FALSE
  /\ firstResp' = NoResp
  /\ retryResp' = NoResp
  /\ outcome' = NoOutcome
  /\ newToken' = Absent
  /\ UNCHANGED <<storageVars, csrfVars, storeVars>>
  /\ UNCHANGED <<layoutVars, pageVars>>

\* a page calls apiRequest
pageRequest == \E m \in Methods : apiRequest_call("page", m)

(***************************************************************************)
(* lib/api/auth: login, logout                                             *)
(***************************************************************************)
\* login() of lib/api/auth after its fetch: what it stores.  The backend
\* sets the csrf_token cookie to the token it returns in the body.
apiLogin_stores(res) ==
  IF res.kind = "ok"
  THEN /\ authToken' = res.access
       /\ refreshToken' = IF res.refresh THEN res.access ELSE refreshToken
       /\ sessCsrf' = IF res.csrf # Absent THEN res.csrf ELSE sessCsrf
       /\ cookie' = IF res.csrf # Absent THEN res.csrf ELSE cookie
  ELSE UNCHANGED <<authToken, refreshToken, sessCsrf, cookie>>

\* login() of lib/api/auth, called on its own: the login endpoint answers
apiLogin ==
  /\ pc \notin Terminal
  /\ \E res \in ApiLoginResults : apiLogin_stores(res)
  /\ UNCHANGED <<storeVars, reqVars>>
  /\ UNCHANGED <<layoutVars, pageVars>>

\* logout() of lib/api/auth, called on its own
apiLogout ==
  /\ pc \notin Terminal
  /\ clearAuthTokens
  /\ UNCHANGED <<csrfVars, storeVars, reqVars>>
  /\ UNCHANGED <<layoutVars, pageVars>>

(***************************************************************************)
(* The backend's csrf_token cookie                                         *)
(***************************************************************************)
\* a response of the backend (to this tab or to another one sharing the
\* cookie jar) carries Set-Cookie: csrf_token=<t>
backendRotatesCookie ==
  /\ pc \notin Terminal
  /\ \E t \in CsrfVals : cookie' = t
  /\ UNCHANGED <<storageVars, sessCsrf, storeVars, reqVars>>
  /\ UNCHANGED <<layoutVars, pageVars>>

\* the cookie expires or is cleared
cookieExpires ==
  /\ pc \notin Terminal
  /\ cookie # Absent
  /\ cookie' = Absent
  /\ UNCHANGED <<storageVars, sessCsrf, storeVars, reqVars>>
  /\ UNCHANGED <<layoutVars, pageVars>>

(***************************************************************************)
(* store/authStore.ts                                                      *)
(***************************************************************************)
\* login() of the store up to `await apiLogin(...)`
login_begin ==
  /\ pc \notin Terminal
  /\ ~loginPending
  /\ loginPending' = TRUE
  /\ loginResult' = "none"
  /\ isLoading' = TRUE
  /\ error' = "null"
  /\ UNCHANGED <<storageVars, csrfVars, user, isAuthenticated, reqVars>>
  /\ UNCHANGED <<layoutVars, pageVars>>

\* the store fields login() sets once apiLogin() has returned or thrown
login_sets(res) ==
  IF res.kind = "ok"
  THEN /\ user' = loginUser(res)
       /\ isAuthenticated' = TRUE
       /\ isLoading' = FALSE
       /\ UNCHANGED error
  ELSE /\ error' = loginErrorMessage(res)
       /\ isLoading' = FALSE
       /\ UNCHANGED <<user, isAuthenticated>>

\* login() of the store: the login endpoint answers with res; login()
\* resolves, or rejects with what apiLogin() threw
login_response(res) ==
  /\ pc \notin Terminal
  /\ loginPending
  /\ loginPending' = FALSE
  /\ loginResult' = IF res.kind = "ok" THEN "resolved" ELSE "rejected"
  /\ apiLogin_stores(res)
  /\ login_sets(res)
  /\ UNCHANGED reqVars
  /\ UNCHANGED <<layoutVars, pageVars>>

login_end == \E res \in LoginResults : login_response(res)

\* logout() of the store
logout ==
  /\ pc \notin Terminal
  /\ clearAuthTokens
  /\ user' = "null"
  /\ isAuthenticated' = FALSE
  /\ error' = "null"
  /\ UNCHANGED <<csrfVars, isLoading, loginPending, loginResult, reqVars>>
  /\ UNCHANGED <<layoutVars, pageVars>>

\* clearError() of the store
clearError ==
  /\ pc \notin Terminal
  /\ error # "null"
  /\ error' = "null"
  /\ UNCHANGED <<storageVars, csrfVars, user, isAuthenticated, isLoading,
                 loginPending, loginResult, reqVars>>
  /\ UNCHANGED <<layoutVars, pageVars>>

\* fetchUser() of the store up to `await getCurrentUser()`
fetchUser == apiRequest_call("fetchUser", "GET")

(***************************************************************************)
(* The pages.  A page calls apiRequest and goes on when the call returns   *)
(* or throws; which of the two happens is the page's input, the steps of   *)
(* the call itself are the client's above.  Navigating away unmounts a     *)
(* page: its state is gone and what its requests bring back is dropped.    *)
(***************************************************************************)
\* requests of one kind a page has in flight at most
MaxFetches == 2
\* test results a response of the E2E endpoint lists at most
MaxResults == 2
\* 2 s timers of Run Test pending at most
MaxTimers == 1

Pages == {"e2e-tests", "status", "users"}

TestStatuses == {"running", "passed"}
ResultLists == UNION { [1..n -> TestStatuses] : n \in 0..MaxResults }

\* what a fetch of the page brought: the list of results, or a throw
FetchOutcomes ==
  { [ok |-> FALSE, results |-> <<>>] }
    \cup { [ok |-> TRUE, results |-> rs] : rs \in ResultLists }

\* useState(true) on the E2E page, useState(false) on the status page
initialAutoRefresh(p) == p = "e2e-tests"

\* (variant: the effect has no cleanup, an interval once set stays)
intervalEffect_noCleanup(timers, wasOn, isOn) ==
  timers + (IF isOn THEN 1 ELSE 0)

\* the effect that owns the polling interval runs (again): the cleanup of
\* its previous run clears the interval that run had set, which it had when
\* autoRefresh was on; then it sets an interval if autoRefresh is on now
intervalEffect(timers, wasOn, isOn) ==
  (IF wasOn THEN timers - 1 ELSE timers) + (IF isOn THEN 1 ELSE 0)

\* a page is mounted: the page before it is unmounted and the cleanup of
\* its effects runs; then the initial state of the new page, the fetch of
\* its mount effect and its interval effect
openPage(p) ==
  /\ mounted # p
  /\ mounted' = p
  /\ loading' = TRUE
  /\ pageError' = FALSE
  /\ autoRefresh' = initialAutoRefresh(p)
  /\ refreshing' = FALSE
  /\ systemStatus' = "null"
  /\ running' = FALSE
  /\ clearing' = FALSE
  /\ confirmModal' = ModalClosed
  /\ testResults' = <<>>
  /\ page' = 1
  /\ total' = 0
  /\ fetches' = 1
  /\ runPending' = FALSE
  /\ runTimers' = 0
  /\ clearStage' = "none"
  /\ lastTick' = "none"
  /\ pollTimers' = intervalEffect(pollTimers, autoRefresh, initialAutoRefresh(p))
  /\ latestInFlight' = (p = "users")
  /\ users' = "none"
  /\ actionUserId' = NoUser
  /\ modalUserId' = NoUser
  /\ actionTarget' = NoUser
  /\ lastConfirm' = "none"
  /\ UNCHANGED <<clientVars, layoutVars, toastVars>>

(***************************************************************************)
(* app/e2e-tests/page.tsx                                                  *)
(***************************************************************************)
\* testResults.some(t => t.status === 'running')
hasRunningTests(rs) == \E i \in 1..Len(rs) : rs[i] = "running"

\* fetchTestResults() up to its await
fetchTestResults ==
  /\ fetches < MaxFetches
  /\ loading' = TRUE
  /\ pageError' = FALSE
  /\ fetches' = fetches + 1

\* fetchTestResults() after its await: try, catch and finally
fetchTestResults_then(res) ==
  /\ testResults' = IF res.ok THEN res.results ELSE testResults
  /\ pageError' = IF res.ok THEN pageError ELSE TRUE
  /\ loading' = FALSE
  /\ pollTimers' = IF res.ok THEN intervalEffect(pollTimers, autoRefresh, autoRefresh)
                  ELSE pollTimers

\* Refresh Now
e2e_refreshNow ==
  /\ mounted = "e2e-tests"
  /\ ~loading
  /\ fetchTestResults
  /\ UNCHANGED <<mounted, autoRefresh, refreshing, systemStatus, running, clearing,
                 confirmModal, testResults, page, total, runPending, runTimers,
                 clearStage, lastTick>>
  /\ UNCHANGED <<clientVars, layoutVars, toastVars>>
  /\ UNCHANGED <<usersVars, pollTimers>>

\* the status filter changes: fetchTestResults is rebuilt and its effect runs
e2e_setStatusFilter ==
  /\ mounted = "e2e-tests"
  /\ fetchTestResults
  /\ UNCHANGED <<mounted, autoRefresh, refreshing, systemStatus, running, clearing,
                 confirmModal, testResults, page, total, runPending, runTimers,
                 clearStage, lastTick>>
  /\ UNCHANGED <<clientVars, layoutVars, toastVars>>
  /\ pollTimers' = intervalEffect(pollTimers, autoRefresh, autoRefresh)
  /\ UNCHANGED usersVars

\* Auto-refresh ON/OFF
e2e_setAutoRefresh ==
  /\ mounted = "e2e-tests"
  /\ autoRefresh' = ~autoRefresh
  /\ UNCHANGED <<mounted, loading, pageError, refreshing, systemStatus, running,
                 clearing, confirmModal, testResults, page, total, fetches,
                 runPending, runTimers, clearStage, lastTick>>
  /\ UNCHANGED <<clientVars, layoutVars, toastVars>>
  /\ pollTimers' = intervalEffect(pollTimers, autoRefresh, ~autoRefresh)
  /\ UNCHANGED usersVars

\* (variant: every tick fetches)
e2e_tick_always ==
  /\ mounted = "e2e-tests"
  /\ pollTimers > 0
  /\ fetchTestResults
  /\ lastTick' = "fetched"
  /\ UNCHANGED <<mounted, autoRefresh, refreshing, systemStatus, running, clearing,
                 confirmModal, testResults, page, total, runPending, runTimers,
                 clearStage>>
  /\ UNCHANGED <<clientVars, layoutVars, toastVars>>
  /\ UNCHANGED <<usersVars, pollTimers>>

\* the callback of a 10 s interval that is set: the interval is rebuilt
\* whenever testResults changes, so its callback reads the current list
e2e_tick ==
  /\ mounted = "e2e-tests"
  /\ pollTimers > 0
  /\ IF hasRunningTests(testResults)
     THEN /\ fetchTestResults
          /\ lastTick' = "fetched"
     ELSE /\ lastTick' = "skipped"
          /\ UNCHANGED <<loading, pageError, fetches>>
  /\ UNCHANGED <<mounted, autoRefresh, refreshing, systemStatus, running, clearing,
                 confirmModal, testResults, page, total, runPending, runTimers,
                 clearStage>>
  /\ UNCHANGED <<clientVars, layoutVars, toastVars>>
  /\ UNCHANGED <<usersVars, pollTimers>>

\* a fetchTestResults() that no handler awaits comes back
fetchTestResults_done(res) ==
  /\ mounted = "e2e-tests"
  /\ fetches > 0
  /\ fetches' = fetches - 1
  /\ fetchTestResults_then(res)
  /\ UNCHANGED <<mounted, autoRefresh, refreshing, systemStatus, running, clearing,
                 confirmModal, page, total, runPending, runTimers, clearStage,
                 lastTick>>
  /\ UNCHANGED <<clientVars, layoutVars, toastVars>>
  /\ UNCHANGED usersVars

\* Run Test: handleRunTest() up to its await
handleRunTest ==
  /\ mounted = "e2e-tests"
  /\ ~running
  /\ ~loading
  /\ running' = TRUE
  /\ pageError' = FALSE
  /\ runPending' = TRUE
  /\ UNCHANGED <<mounted, loading, autoRefresh, refreshing, systemStatus, clearing,
                 confirmModal, testResults, page, total, fetches, runTimers,
                 clearStage, lastTick>>
  /\ UNCHANGED <<clientVars, layoutVars, toastVars>>
  /\ UNCHANGED <<usersVars, pollTimers>>

\* (variant: a failed Run Test leaves running set)
handleRunTest_then_noFinally(succeeded) ==
  /\ mounted = "e2e-tests"
  /\ runPending
  /\ runPending' = FALSE
  /\ IF succeeded
     THEN /\ runTimers < MaxTimers
          /\ runTimers' = runTimers + 1
          /\ running' = FALSE
          /\ UNCHANGED pageError
     ELSE /\ pageError' = TRUE
          /\ UNCHANGED <<runTimers, running>>
  /\ UNCHANGED <<mounted, loading, autoRefresh, refreshing, systemStatus, clearing,
                 confirmModal, testResults, page, total, fetches, clearStage,
                 lastTick>>
  /\ UNCHANGED <<clientVars, layoutVars, toastVars>>
  /\ UNCHANGED <<usersVars, pollTimers>>

\* handleRunTest() after its await: the 2 s timer on success, the error on
\* failure, running reset in finally
handleRunTest_then(succeeded) ==
  /\ mounted = "e2e-tests"
  /\ runPending
  /\ runPending' = FALSE
  /\ IF succeeded
     THEN /\ runTimers < MaxTimers
          /\ runTimers' = runTimers + 1
          /\ UNCHANGED pageError
     ELSE /\ pageError' = TRUE
          /\ UNCHANGED runTimers
  /\ running' = FALSE
  /\ UNCHANGED <<mounted, loading, autoRefresh, refreshing, systemStatus, clearing,
                 confirmModal, testResults, page, total, fetches, clearStage,
                 lastTick>>
  /\ UNCHANGED <<clientVars, layoutVars, toastVars>>
  /\ UNCHANGED <<usersVars, pollTimers>>

\* the 2 s timer set by a successful Run Test fires
e2e_runTimer ==
  /\ mounted = "e2e-tests"
  /\ runTimers > 0
  /\ runTimers' = runTimers - 1
  /\ fetchTestResults
  /\ UNCHANGED <<mounted, autoRefresh, refreshing, systemStatus, running, clearing,
                 confirmModal, testResults, page, total, runPending, clearStage,
                 lastTick>>
  /\ UNCHANGED <<clientVars, layoutVars, toastVars>>
  /\ UNCHANGED <<usersVars, pollTimers>>

\* Clear All: handleClearTests() opens the confirm dialog
handleClearTests ==
  /\ mounted = "e2e-tests"
  /\ ~clearing
  /\ ~loading
  /\ ~confirmModal.isOpen
  /\ confirmModal' = [isOpen |-> TRUE, isLoading |-> clearing]
  /\ UNCHANGED <<mounted, loading, pageError, autoRefresh, refreshing, systemStatus,
                 running, clearing, testResults, page, total, fetches, runPending,
                 runTimers, clearStage, lastTick>>
  /\ UNCHANGED <<clientVars, layoutVars, toastVars>>
  /\ UNCHANGED <<usersVars, pollTimers>>

\* the dialog's onClose (Cancel, the close button)
e2e_modalClose ==
  /\ mounted = "e2e-tests"
  /\ confirmModal.isOpen
  /\ ~confirmModal.isLoading
  /\ confirmModal' = [confirmModal EXCEPT !.isOpen = FALSE]
  /\ UNCHANGED <<mounted, loading, pageError, autoRefresh, refreshing, systemStatus,
                 running, clearing, testResults, page, total, fetches, runPending,
                 runTimers, clearStage, lastTick>>
  /\ UNCHANGED <<clientVars, layoutVars, toastVars>>
  /\ UNCHANGED <<usersVars, pollTimers>>

\* the dialog's onConfirm up to its await: the DELETE is sent
e2e_onConfirm ==
  /\ mounted = "e2e-tests"
  /\ confirmModal.isOpen
  /\ ~confirmModal.isLoading
  /\ clearStage = "none"
  /\ clearing' = TRUE
  /\ confirmModal' = [confirmModal EXCEPT !.isLoading = TRUE]
  /\ pageError' = FALSE
  /\ clearStage' = "deleting"
  /\ UNCHANGED <<mounted, loading, autoRefresh, refreshing, systemStatus, running,
                 testResults, page, total, fetches, runPending, runTimers, lastTick>>
  /\ UNCHANGED <<clientVars, layoutVars, toastVars>>
  /\ UNCHANGED <<usersVars, pollTimers>>

\* onConfirm after the DELETE: on success the dialog closes and
\* fetchTestResults() is awaited; on failure catch and finally run
e2e_onConfirm_deleted(succeeded) ==
  /\ mounted = "e2e-tests"
  /\ clearStage = "deleting"
  /\ IF succeeded
     THEN /\ confirmModal' = [confirmModal EXCEPT !.isOpen = FALSE]
          /\ loading' = TRUE
          /\ pageError' = FALSE
          /\ clearStage' = "refetching"
          /\ UNCHANGED clearing
     ELSE /\ pageError' = TRUE
          /\ clearing' = FALSE
          /\ confirmModal' = [confirmModal EXCEPT !.isLoading = FALSE]
          /\ clearStage' = "none"
          /\ UNCHANGED loading
  /\ UNCHANGED <<mounted, autoRefresh, refreshing, systemStatus, running,
                 testResults, page, total, fetches, runPending, runTimers, lastTick>>
  /\ UNCHANGED <<clientVars, layoutVars, toastVars>>
  /\ UNCHANGED <<usersVars, pollTimers>>

\* onConfirm after the awaited fetchTestResults(): finally
e2e_onConfirm_refetched(res) ==
  /\ mounted = "e2e-tests"
  /\ clearStage = "refetching"
  /\ fetchTestResults_then(res)
  /\ clearing' = FALSE
  /\ confirmModal' = [confirmModal EXCEPT !.isLoading = FALSE]
  /\ clearStage' = "none"
  /\ UNCHANGED <<mounted, autoRefresh, refreshing, systemStatus, running,
                 page, total, fetches, runPending, runTimers, lastTick>>
  /\ UNCHANGED <<clientVars, layoutVars, toastVars>>
  /\ UNCHANGED usersVars

(***************************************************************************)
(* StatusPage (app/audit-logs/page.tsx, second component)                  *)
(***************************************************************************)
\* the page shows its header (checkbox, Refresh Status) unless it returns
\* the spinner or the error screen
statusControlsShown ==
  IF systemStatus = "null" THEN ~loading /\ ~pageError ELSE TRUE

\* the error screen with its Try again link
statusErrorShown == systemStatus = "null" /\ ~loading /\ pageError

\* fetchStatus(isManual) up to its await
fetchStatus(isManual) ==
  /\ fetches < MaxFetches
  /\ refreshing' = IF isManual THEN TRUE ELSE refreshing
  /\ loading' = IF isManual THEN loading ELSE TRUE
  /\ pageError' = FALSE
  /\ fetches' = fetches + 1

\* the Auto-refresh (30s) checkbox
status_setAutoRefresh ==
  /\ mounted = "status"
  /\ statusControlsShown
  /\ autoRefresh' = ~autoRefresh
  /\ UNCHANGED <<mounted, loading, pageError, refreshing, systemStatus, running,
                 clearing, confirmModal, testResults, page, total, fetches,
                 runPending, runTimers, clearStage, lastTick>>
  /\ UNCHANGED <<clientVars, layoutVars, toastVars>>
  /\ pollTimers' = intervalEffect(pollTimers, autoRefresh, ~autoRefresh)
  /\ UNCHANGED usersVars

\* Refresh Status, or Try again on the error screen
status_refresh ==
  /\ mounted = "status"
  /\ IF statusErrorShown THEN TRUE ELSE statusControlsShown /\ ~refreshing
  /\ fetchStatus(TRUE)
  /\ UNCHANGED <<mounted, autoRefresh, systemStatus, running, clearing,
                 confirmModal, testResults, page, total, runPending, runTimers,
                 clearStage, lastTick>>
  /\ UNCHANGED <<clientVars, layoutVars, toastVars>>
  /\ UNCHANGED <<usersVars, pollTimers>>

\* the callback of a 30 s interval that is set
status_tick ==
  /\ mounted = "status"
  /\ pollTimers > 0
  /\ fetchStatus(FALSE)
  /\ lastTick' = "fetched"
  /\ UNCHANGED <<mounted, autoRefresh, systemStatus, running, clearing,
                 confirmModal, testResults, page, total, runPending, runTimers,
                 clearStage>>
  /\ UNCHANGED <<clientVars, layoutVars, toastVars>>
  /\ UNCHANGED <<usersVars, pollTimers>>

\* fetchStatus() after its await: try, catch and finally
fetchStatus_done(succeeded) ==
  /\ mounted = "status"
  /\ fetches > 0
  /\ fetches' = fetches - 1
  /\ systemStatus' = IF succeeded THEN "loaded" ELSE systemStatus
  /\ pageError' = IF succeeded THEN pageError ELSE TRUE
  /\ loading' = FALSE
  /\ refreshing' = FALSE
  /\ UNCHANGED <<mounted, autoRefresh, running, clearing, confirmModal,
                 testResults, page, total, runPending, runTimers, clearStage,
                 lastTick>>
  /\ UNCHANGED <<clientVars, layoutVars, toastVars>>
  /\ UNCHANGED <<usersVars, pollTimers>>

(***************************************************************************)
(* AdminUsersPage (app/users/page.tsx)                                     *)
(***************************************************************************)
\* const limit = 20
limit == 20
\* the largest total the backend reports
MaxTotal == 41
Totals == 0..MaxTotal

\* Math.ceil(total / limit)
totalPages(t) == (t + limit - 1) \div limit

\* (variant: Next is disabled only beyond the last page)
nextDisabled_beyond(pg, t) == pg > totalPages(t)

\* disabled={page >= totalPages}
nextDisabled(pg, t) == pg >= totalPages(t)

\* disabled={page === 1}
previousDisabled(pg) == pg = 1

\* the pagination bar is rendered: total > 0
paginationShown == total > 0

\* what GET /api/v1/admin/users brought: a list with its total, or a throw;
\* and whether it answers the fetchUsers() issued last or an earlier one
UsersOutcomes ==
  { [ok |-> FALSE, total |-> 0, latest |-> l] : l \in BOOLEAN }
    \cup { [ok |-> TRUE, total |-> t, latest |-> l] : t \in Totals, l \in BOOLEAN }

\* fetchUsers() up to its await
fetchUsers ==
  /\ fetches < MaxFetches
  /\ loading' = TRUE
  /\ fetches' = fetches + 1
  /\ latestInFlight' = TRUE
  /\ users' = IF users = "latest" THEN "older" ELSE users

\* Next: setPage(p => p + 1), and the effect on page
users_next ==
  /\ mounted = "users"
  /\ paginationShown
  /\ ~nextDisabled(page, total)
  /\ page' = page + 1
  /\ fetchUsers
  /\ UNCHANGED <<mounted, pageError, autoRefresh, refreshing, systemStatus, running,
                 clearing, confirmModal, testResults, total, runPending, runTimers,
                 clearStage, lastTick>>
  /\ UNCHANGED <<clientVars, layoutVars, toastVars>>
  /\ UNCHANGED <<actionUserId, modalUserId, actionTarget, lastConfirm, pollTimers>>

\* Previous: setPage(p => Math.max(1, p - 1)), and the effect on page
users_previous ==
  /\ mounted = "users"
  /\ paginationShown
  /\ ~previousDisabled(page)
  /\ page' = IF page - 1 > 1 THEN page - 1 ELSE 1
  /\ fetchUsers
  /\ UNCHANGED <<mounted, pageError, autoRefresh, refreshing, systemStatus, running,
                 clearing, confirmModal, testResults, total, runPending, runTimers,
                 clearStage, lastTick>>
  /\ UNCHANGED <<clientVars, layoutVars, toastVars>>
  /\ UNCHANGED <<actionUserId, modalUserId, actionTarget, lastConfirm, pollTimers>>

\* the search box or a filter changes: setPage(1), and the effect
users_setFilters ==
  /\ mounted = "users"
  /\ page' = 1
  /\ fetchUsers
  /\ UNCHANGED <<mounted, pageError, autoRefresh, refreshing, systemStatus, running,
                 clearing, confirmModal, testResults, total, runPending, runTimers,
                 clearStage, lastTick>>
  /\ UNCHANGED <<clientVars, layoutVars, toastVars>>
  /\ UNCHANGED <<actionUserId, modalUserId, actionTarget, lastConfirm, pollTimers>>

\* fetchUsers() after its await: try, catch and finally
fetchUsers_done(res) ==
  /\ mounted = "users"
  /\ IF res.latest THEN latestInFlight
     ELSE fetches > (IF latestInFlight THEN 1 ELSE 0)
  /\ fetches' = fetches - 1
  /\ latestInFlight' = IF res.latest THEN FALSE ELSE latestInFlight
  /\ users' = IF ~res.ok THEN users
              ELSE IF res.latest THEN "latest" ELSE "older"
  /\ total' = IF res.ok THEN res.total ELSE total
  /\ pageError' = IF res.ok THEN pageError ELSE TRUE
  /\ loading' = FALSE
  /\ UNCHANGED <<mounted, autoRefresh, refreshing, systemStatus, running, clearing,
                 confirmModal, testResults, page, runPending, runTimers, clearStage,
                 lastTick>>
  /\ UNCHANGED <<clientVars, layoutVars, toastVars>>
  /\ UNCHANGED <<actionUserId, modalUserId, actionTarget, lastConfirm, pollTimers>>

\* Deactivate, Delete, Ban, Verify or Send verification on the row of user
\* u: handleDelete(u) and its like.  setActionUserId(u) takes effect with
\* the next render; the onConfirm built here closes over the actionUserId
\* of the render the handler belongs to.  Modal is not part of the sources:
\* the rows stay reachable while the dialog is open unless it prevents that.
users_rowAction(u) ==
  /\ mounted = "users"
  /\ users # "none"
  /\ ~confirmModal.isLoading
  /\ actionUserId' = u
  /\ modalUserId' = actionUserId
  /\ confirmModal' = [isOpen |-> TRUE, isLoading |-> FALSE]
  /\ UNCHANGED <<mounted, loading, pageError, autoRefresh, refreshing, systemStatus,
                 running, clearing, testResults, page, total, fetches, runPending,
                 runTimers, clearStage, lastTick, pollTimers>>
  /\ UNCHANGED <<latestInFlight, users, actionTarget, lastConfirm>>
  /\ UNCHANGED <<clientVars, layoutVars, toastVars>>

\* the dialog's onClose (Cancel, the close button)
users_modalClose ==
  /\ mounted = "users"
  /\ confirmModal.isOpen
  /\ ~confirmModal.isLoading
  /\ confirmModal' = [confirmModal EXCEPT !.isOpen = FALSE]
  /\ actionUserId' = NoUser
  /\ UNCHANGED <<mounted, loading, pageError, autoRefresh, refreshing, systemStatus,
                 running, clearing, testResults, page, total, fetches, runPending,
                 runTimers, clearStage, lastTick, pollTimers>>
  /\ UNCHANGED <<latestInFlight, users, modalUserId, actionTarget, lastConfirm>>
  /\ UNCHANGED <<clientVars, layoutVars, toastVars>>

\* Confirm: the dialog's onConfirm up to its return or its await
users_onConfirm ==
  /\ mounted = "users"
  /\ confirmModal.isOpen
  /\ ~confirmModal.isLoading
  /\ IF modalUserId = NoUser
     THEN /\ lastConfirm' = "ignored"
          /\ UNCHANGED <<confirmModal, actionTarget>>
     ELSE /\ confirmModal' = [confirmModal EXCEPT !.isLoading = TRUE]
          /\ actionTarget' = modalUserId
          /\ lastConfirm' = "sent"
  /\ UNCHANGED <<mounted, loading, pageError, autoRefresh, refreshing, systemStatus,
                 running, clearing, testResults, page, total, fetches, runPending,
                 runTimers, clearStage, lastTick, pollTimers>>
  /\ UNCHANGED <<latestInFlight, users, actionUserId, modalUserId>>
  /\ UNCHANGED <<clientVars, layoutVars, toastVars>>

\* onConfirm after its await: on success the dialog is closed,
\* actionUserId reset and fetchUsers() called; on failure the dialog stays
users_onConfirm_done(succeeded) ==
  /\ mounted = "users"
  /\ actionTarget # NoUser
  /\ actionTarget' = NoUser
  /\ IF succeeded
     THEN /\ confirmModal' = [isOpen |-> FALSE, isLoading |-> FALSE]
          /\ actionUserId' = NoUser
          /\ fetchUsers
     ELSE /\ confirmModal' = [confirmModal EXCEPT !.isLoading = FALSE]
          /\ UNCHANGED <<actionUserId, loading, fetches, latestInFlight, users>>
  /\ UNCHANGED <<mounted, pageError, autoRefresh, refreshing, systemStatus,
                 running, clearing, testResults, page, total, runPending,
                 runTimers, clearStage, lastTick, pollTimers>>
  /\ UNCHANGED <<modalUserId, lastConfirm>>
  /\ UNCHANGED <<clientVars, layoutVars, toastVars>>

(***************************************************************************)
(* components/ui/Toast.tsx: the module-level toast queue.  An id            *)
(* `toast-<n>` is modelled by n.  Every handler of the panel may publish.   *)
(***************************************************************************)
\* toasts published at most
MaxPublished == 3

ToastTypes == {"success", "error", "info", "warning"}

\* the components whose listener is in toastListeners
subscribed(ls) == { ls[i] : i \in 1..Len(ls) }

\* notifyListeners(): every listener is called with a copy of toasts and
\* sets its component's state to it
notifyListeners(ls, ts, st) ==
  [c \in Components |-> IF c \in subscribed(ls) THEN ts ELSE st[c]]

\* toasts.filter((t) => t.id !== id)
withoutToast(ts, id) == SelectSeq(ts, LAMBDA t : t.id # id)

\* (variant: the id is built from the counter without advancing it)
toast_publish_sameId(type) ==
  /\ toastIdCounter < MaxPublished
  /\ UNCHANGED toastIdCounter
  /\ toasts' = Append(toasts, [id |-> toastIdCounter + 1, type |-> type])
  /\ toastState' = notifyListeners(toastListeners, toasts', toastState)
  /\ UNCHANGED toastListeners
  /\ UNCHANGED <<clientVars, layoutVars, pageState>>

\* toast.success / error / info / warning, and showToast(message, type)
toast_publish(type) ==
  /\ toastIdCounter < MaxPublished
  /\ toastIdCounter' = toastIdCounter + 1
  /\ toasts' = Append(toasts, [id |-> toastIdCounter', type |-> type])
  /\ toastState' = notifyListeners(toastListeners, toasts', toastState)
  /\ UNCHANGED toastListeners
  /\ UNCHANGED <<clientVars, layoutVars, pageState>>

\* removeToast(id): the close button of a toast, or its duration timer
removeToast(id) ==
  /\ toasts' = withoutToast(toasts, id)
  /\ toastState' = notifyListeners(toastListeners, toasts', toastState)
  /\ UNCHANGED <<toastIdCounter, toastListeners>>
  /\ UNCHANGED <<clientVars, layoutVars, pageState>>

\* the effect of useToastState() in component c: its listener is pushed and
\* its state set to a copy of toasts
toast_subscribe(c) ==
  /\ c \notin subscribed(toastListeners)
  /\ toastListeners' = Append(toastListeners, c)
  /\ toastState' = [toastState EXCEPT ![c] = toasts]
  /\ UNCHANGED <<toastIdCounter, toasts>>
  /\ UNCHANGED <<clientVars, layoutVars, pageState>>

\* the cleanup of that effect when c is unmounted: indexOf and splice; the
\* component's state is gone
toast_unsubscribe(c) ==
  /\ c \in subscribed(toastListeners)
  /\ toastListeners' = SelectSeq(toastListeners, LAMBDA l : l # c)
  /\ toastState' = [toastState EXCEPT ![c] = <<>>]
  /\ UNCHANGED <<toastIdCounter, toasts>>
  /\ UNCHANGED <<clientVars, layoutVars, pageState>>

(***************************************************************************)
(* AdminLayoutClient (app/layout client component)                         *)
(***************************************************************************)
Paths == {"/login", "/", "/users"}

\* the pathname changes (first load, a link, the back button): the layout
\* renders with the new pathname and its effect is scheduled
navigate(p) ==
  /\ pc = "idle"
  /\ check # "due"
  /\ p # pathname
  /\ pathname' = p
  /\ check' = "due"
  /\ UNCHANGED <<layoutLoading, isAdmin, pushPending>>
  /\ UNCHANGED <<clientVars, pageVars>>

\* a router.push('/login') takes effect
routerPush ==
  /\ pc = "idle"
  /\ check # "due"
  /\ pushPending
  /\ pushPending' = FALSE
  /\ IF pathname = "/login"
     THEN UNCHANGED <<pathname, check>>
     ELSE /\ pathname' = "/login"
          /\ check' = "due"
  /\ UNCHANGED <<layoutLoading, isAdmin>>
  /\ UNCHANGED <<clientVars, pageVars>>

\* the effect on pathname: checkAdmin() up to its return or its await
checkAdmin ==
  /\ check = "due"
  /\ IF pathname = "/login"
     THEN /\ layoutLoading' = FALSE
          /\ check' = "skipped"
          /\ UNCHANGED <<pathname, isAdmin, pushPending>>
          /\ UNCHANGED <<clientVars, pageVars>>
     ELSE IF authToken = NoToken
     THEN /\ pushPending' = TRUE
          /\ check' = "failed"
          /\ UNCHANGED <<pathname, layoutLoading, isAdmin>>
          /\ UNCHANGED <<clientVars, pageVars>>
     ELSE /\ apiRequest_begin("checkAdmin", "GET")
          /\ check' = "running"
          /\ UNCHANGED <<pathname, layoutLoading, isAdmin, pushPending>>

\* the layout returns its frame with {children} for a protected route:
\* neither the /login branch nor the spinner
rendersProtectedChildren ==
  /\ pathname \notin {"none", "/login"}
  /\ ~layoutLoading
  /\ isAdmin # "null"

(***************************************************************************)
(* Specifications                                                          *)
(***************************************************************************)
\* the API client with lib/api/auth, driven by the pages
Next ==
  \/ pageRequest
  \/ \E res \in IssuerResults : apiRequest_csrfFetched(res)
  \/ \E resp \in PageResponses : apiRequest_response(resp)
  \/ \E res \in IssuerResults : apiRequest_csrfRefetched(res)
  \/ \E resp \in PageResponses : apiRequest_retryResponse(resp)
  \/ apiRequest_fetchRejects
  \/ apiRequest_settled
  \/ apiLogin
  \/ apiLogout
  \/ backendRotatesCookie
  \/ cookieExpires

Spec == Init /\ [][Next]_vars

\* the auth store over the API client
NextStore ==
  \/ login_begin
  \/ login_end
  \/ logout
  \/ clearError
  \/ fetchUser
  \/ \E resp \in DrawnResponses : apiRequest_response(resp)
  \/ \E res \in IssuerResults : apiRequest_csrfRefetched(res)
  \/ apiRequest_fetchRejects
  \/ apiRequest_settled
  \/ cookieExpires

SpecStore == Init /\ [][NextStore]_vars

\* a tab that holds a session
InitSignedIn ==
  /\ Init
  /\ authToken = 1
  /\ refreshToken = 1
  /\ cookie = <<1>>

\* the pages, one mounted at a time, with the answers to their requests
NextPages ==
  \/ \E p \in Pages : openPage(p)
  \/ e2e_refreshNow
  \/ e2e_setStatusFilter
  \/ e2e_setAutoRefresh
  \/ e2e_tick
  \/ \E res \in FetchOutcomes : fetchTestResults_done(res)
  \/ handleRunTest
  \/ \E succeeded \in BOOLEAN : handleRunTest_then(succeeded)
  \/ e2e_runTimer
  \/ handleClearTests
  \/ e2e_modalClose
  \/ e2e_onConfirm
  \/ \E succeeded \in BOOLEAN : e2e_onConfirm_deleted(succeeded)
  \/ \E res \in FetchOutcomes : e2e_onConfirm_refetched(res)
  \/ status_setAutoRefresh
  \/ status_refresh
  \/ status_tick
  \/ \E succeeded \in BOOLEAN : fetchStatus_done(succeeded)
  \/ users_next
  \/ users_previous
  \/ users_setFilters
  \/ \E res \in UsersOutcomes : fetchUsers_done(res)

SpecPages == InitSignedIn /\ [][NextPages]_vars

\* every request a page waits for is answered or fails in the end: the
\* continuation behind each await runs
FairPages ==
  /\ SpecPages
  /\ WF_vars(\E res \in FetchOutcomes : fetchTestResults_done(res))
  /\ WF_vars(\E succeeded \in BOOLEAN : handleRunTest_then(succeeded))
  /\ WF_vars(\E succeeded \in BOOLEAN : e2e_onConfirm_deleted(succeeded))
  /\ WF_vars(\E res \in FetchOutcomes : e2e_onConfirm_refetched(res))
  /\ WF_vars(\E succeeded \in BOOLEAN : fetchStatus_done(succeeded))
  /\ WF_vars(\E res \in UsersOutcomes : fetchUsers_done(res))

\* the users page with its confirm dialog
NextUsers ==
  \/ openPage("users")
  \/ users_next
  \/ users_previous
  \/ users_setFilters
  \/ \E res \in UsersOutcomes : fetchUsers_done(res)
  \/ \E u \in UserIds : users_rowAction(u)
  \/ users_modalClose
  \/ users_onConfirm
  \/ \E succeeded \in BOOLEAN : users_onConfirm_done(succeeded)

SpecUsers == InitSignedIn /\ [][NextUsers]_vars

\* the toast queue with its publishers and listeners
NextToast ==
  \/ \E type \in ToastTypes : toast_publish(type)
  \/ \E id \in 1..MaxPublished : removeToast(id)
  \/ \E c \in Components : toast_subscribe(c)
  \/ \E c \in Components : toast_unsubscribe(c)

SpecToast == InitSignedIn /\ [][NextToast]_vars

\* the admin layout over the store's fetchUser()
NextLayout ==
  \/ \E p \in Paths : navigate(p)
  \/ routerPush
  \/ checkAdmin
  \/ \E resp \in DrawnResponses : apiRequest_response(resp)
  \/ \E res \in IssuerResults : apiRequest_csrfRefetched(res)
  \/ apiRequest_fetchRejects
  \/ apiRequest_settled
  \/ cookieExpires

SpecLayout == Init /\ [][NextLayout]_vars

(***************************************************************************)
(* Properties                                                              *)
(***************************************************************************)
\* a response that is a CSRF rejection: 403 with a detail containing "CSRF"
Csrf403(resp) == resp.status = 403 /\ resp.detail = "csrf"
\* a response was received and it is not 2xx
NonOk(resp) == resp # NoResp /\ ~(resp.status >= 200 /\ resp.status <= 299)
\* the call has returned or thrown
Over == pc \in Terminal

\* C1: an apiRequest call sends its request to the endpoint at most twice
\* (the first send and at most one retry), whatever the method, the stored
\* tokens and the responses; once the retry is out the call can only end,
\* and a request that is in its first send has been sent once.
C1_AtMostTwoSends ==
  [][ /\ sends' <= 2
      /\ (pc = "retried" => pc' \in {"retried", "success", "failed"})
      /\ (pc' = "sent" => sends' = 1) ]_vars

C1_TwoSends == Over /\ sends = 2

\* C2 (as claimed): whenever the first response is a CSRF rejection the
\* request is resent exactly once, and a retry answered by 403 ends in a
\* throw.
C2_AlwaysResent ==
  Over /\ Csrf403(firstResp) =>
    /\ sends = 2
    /\ (retryResp.status = 403 => outcome.kind = "thrown")

\* C2 (amended): when the first response is a CSRF rejection the request is
\* resent at most once: exactly once when the method is not GET and the
\* lookup after the rejection yields a token (which the retry then
\* carries), and otherwise not at all, the call throwing the error of the
\* first response.  A retry that is answered by 403, by any other non-2xx
\* status or not at all ends the call with a throw and no further send.
C2_ResentOnceWhenTokenAndNotGet ==
  Over /\ Csrf403(firstResp) =>
    /\ sends \in {1, 2}
    /\ (sends = 2 <=> (method # "GET" /\ newToken # Absent))
    /\ (sends = 2 => hdrCsrf = newToken /\ sessCsrf # Absent)
    /\ (sends = 1 => outcome = Thrown("backend-detail") /\ retryResp = NoResp)
    /\ (sends = 2 /\ (retryResp = NoResp \/ NonOk(retryResp)) => outcome.kind = "thrown")

C2_SecondForbidden ==
  /\ Over
  /\ Csrf403(firstResp)
  /\ sends = 2
  /\ retryResp.status = 403
  /\ outcome.kind = "thrown"

\* C3: the X-CSRF-Token of the retry comes from a GET to the issuing
\* endpoint made after the rejection: the retry goes out only when that
\* GET is answered, never straight from the rejection with the token the
\* cache holds.
C3_RetryTokenRefetched ==
  [][ (pc # "retried" /\ pc' = "retried") => pc = "csrfRefetch" ]_vars

\* C4: a first response that is not 2xx and is not a CSRF rejection ends
\* the call at once: one send, no retry, an error thrown, for every status
\* and every method.
C4_NoRetryOnOtherErrors ==
  NonOk(firstResp) /\ ~Csrf403(firstResp) =>
    /\ pc = "failed"
    /\ sends = 1
    /\ retryResp = NoResp
    /\ outcome.kind = "thrown"

C4_Plain403Thrown ==
  /\ pc = "failed"
  /\ isMutating(method)
  /\ hdrCsrf # Absent
  /\ firstResp.status = 403
  /\ firstResp.detail = "other"
  /\ sends = 1

\* the methods the specification calls mutating
Mutating(m) == m \in {"POST", "PUT", "DELETE", "PATCH"}

\* C5: the store is never authenticated while the user it holds is not an
\* admin (is_admin false or absent, or no user record at all).
C5_AuthenticatedOnlyAdmin == isAuthenticated => user = "admin"

\* C6: when the login call succeeds with a user whose is_admin is false,
\* login() leaves the store unauthenticated with no user and removes the
\* stored access and refresh tokens.
C6_NonAdminLoginDiscarded ==
  [][ \A res \in LoginResults :
        (login_response(res) /\ res.kind = "ok" /\ res.user = "nonadmin")
          => /\ isAuthenticated' = FALSE
             /\ user' = "null"
             /\ authToken' = NoToken
             /\ refreshToken' = NoToken ]_vars

\* C7: when fetchUser() ends and /users/me failed (transport error, non-2xx,
\* unreadable body) or did not return a user with is_admin true, the store
\* is unauthenticated with no user, and auth_token and refresh_token are
\* gone from storage.
C7_FetchUserFailureClears ==
  (Over /\ caller = "fetchUser" /\ ~(outcome.kind = "returned" /\ outcome.val = "admin"))
    => /\ isAuthenticated = FALSE
       /\ user = "null"
       /\ authToken = NoToken
       /\ refreshToken = NoToken

\* fetchUser() was called with a stored token, /users/me answered non-2xx,
\* and the session is torn down
C7_TornDownAfterError ==
  /\ Over
  /\ caller = "fetchUser"
  /\ hdrAuth # NoToken
  /\ NonOk(firstResp)
  /\ outcome.kind = "thrown"
  /\ isAuthenticated = FALSE
  /\ user = "null"
  /\ authToken = NoToken
  /\ refreshToken = NoToken

\* C8: a mutating request for which no CSRF token can be had (none cached,
\* no cookie, and no bearer token or no token from the issuing endpoint)
\* is still sent, once, as requested, without X-CSRF-Token and with a
\* warning; a call waiting for the issuing endpoint always goes on to send.
C8_SentWithoutTokenAndWarned ==
  [][ /\ (pc = "idle" /\ pc' # "idle" /\ Mutating(method')
            /\ sessCsrf = Absent /\ cookie = Absent /\ authToken = NoToken)
          => (pc' = "sent" /\ sends' = 1 /\ hdrCsrf' = Absent /\ warned')
      /\ (pc = "csrfFetch" /\ pc' # "csrfFetch")
          => (pc' = "sent" /\ sends' = 1 /\ method' = method /\ Mutating(method))
      /\ \A res \in IssuerResults :
           (apiRequest_csrfFetched(res) /\ (res.kind # "ok" \/ res.token = Absent))
             => (pc' = "sent" /\ sends' = 1 /\ hdrCsrf' = Absent /\ warned')
      /\ (pc' = "sent" /\ Mutating(method') /\ hdrCsrf' = Absent) => warned' ]_vars

\* the issuing endpoint was asked and gave nothing; the request is out
\* without the header, the warning logged
C8_SentUnprotected ==
  /\ pc = "sent"
  /\ Mutating(method)
  /\ issuerGets = 1
  /\ hdrCsrf = Absent
  /\ warned
  /\ sends = 1

\* C9: for a mutating request the X-CSRF-Token is the cached value if there
\* is one; otherwise the csrf_token cookie value, which is then cached;
\* otherwise the value from one authenticated GET to the issuing endpoint,
\* which is then cached.  The issuing endpoint is asked before the send
\* only when cache and cookie are both absent.
C9_ResolutionOrder ==
  [][ /\ (pc = "idle" /\ pc' # "idle" /\ Mutating(method')) =>
           IF sessCsrf # Absent
           THEN pc' = "sent" /\ hdrCsrf' = sessCsrf /\ sessCsrf' = sessCsrf
                /\ issuerGets' = 0
           ELSE IF cookie # Absent
           THEN pc' = "sent" /\ hdrCsrf' = cookie /\ sessCsrf' = cookie
                /\ issuerGets' = 0
           ELSE IF authToken # NoToken
           THEN pc' = "csrfFetch" /\ issuerGets' = 1 /\ sends' = 0
           ELSE pc' = "sent" /\ hdrCsrf' = Absent /\ issuerGets' = 0
      /\ \A res \in IssuerResults :
           (apiRequest_csrfFetched(res) /\ res.kind = "ok" /\ res.token # Absent)
             => (hdrCsrf' = res.token /\ sessCsrf' = res.token /\ issuerGets' = 1) ]_vars

\* C10: whenever a mutating request goes out with an X-CSRF-Token header
\* while a csrf_token cookie exists, the header equals the cookie.  Stated
\* for cookie values without '=', which getCsrfToken reads in full.
C10_HeaderEqualsCookie ==
  [][ (sends' = sends + 1 /\ Mutating(method') /\ hdrCsrf' # Absent
         /\ cookie' \in PlainTokens)
        => hdrCsrf' = cookie' ]_vars

\* the last response the call handled: the retry's if there is one
finalResp == IF retryResp # NoResp THEN retryResp ELSE firstResp

\* C11: whenever the final response handled by apiRequest is 2xx with an
\* empty body or with a content type that is not application/json, the call
\* resolves to the empty object and does not throw, whatever the body text.
C11_EmptyOrNonJsonGivesEmptyObject ==
  (Over /\ finalResp # NoResp /\ ok(finalResp)
     /\ (finalResp.body = "empty" \/ ~finalResp.ctjson))
    => outcome = Returned("emptyobj")

\* the error the specification promises for a non-2xx response: the body's own
\* object when it has a detail, otherwise { detail: "HTTP <status>: ..." }
DetailError(resp) ==
  IF resp.detail \in {"csrf", "other", "object"} THEN Thrown("backend-detail")
  ELSE Thrown("http-status")

\* C12: every error apiRequest throws because of a non-2xx response, on the
\* first attempt or on the retry, is an object with a detail field: the
\* backend's detail when the error body has one, otherwise the synthesized
\* "HTTP <status>: <statusText>".
C12_ThrownErrorHasDetail ==
  [][ /\ \A resp \in Responses :
           (apiRequest_response(resp) /\ ~ok(resp) /\ pc' = "failed")
             => outcome' = DetailError(resp)
      /\ \A res \in IssuerResults :
           (apiRequest_csrfRefetched(res) /\ pc' = "failed")
             => outcome' = DetailError(firstResp)
      /\ \A resp \in Responses :
           (apiRequest_retryResponse(resp) /\ ~ok(resp))
             => outcome' = DetailError(resp) ]_vars

C14_TransportFailureRejects ==
  [][ /\ (pc = "sent" /\ pc' # "sent" /\ firstResp' = NoResp) =>
           /\ pc' = "failed"
           /\ outcome' = Thrown("network")
           /\ sends' = 1
           /\ retryResp' = NoResp
           /\ issuerGets' = issuerGets
      /\ (pc = "failed") => (pc' = "idle" /\ sends' = 0 /\ issuerGets' = 0) ]_vars

\* a mutating request carrying a CSRF token got no response
C14_SendFailed ==
  /\ pc = "failed"
  /\ Mutating(method)
  /\ hdrCsrf # Absent
  /\ firstResp = NoResp
  /\ retryResp = NoResp
  /\ sends = 1
  /\ outcome = Thrown("network")

\* C15: the Authorization header of a call is fixed when the call starts:
\* it carries the auth_token that storage holds at that moment, and there
\* is no header when storage holds none; every send of the call, the retry
\* included, goes out with that same header, whatever happens to storage
\* in between.
C15_BearerFromStorageAtCall ==
  [][ /\ (pc = "idle" /\ pc' # "idle") => hdrAuth' = authToken
      /\ (pc # "idle" /\ pc' # "idle") => hdrAuth' = hdrAuth
      /\ (sends' = sends + 1 /\ pc # "idle") => hdrAuth' = hdrAuth ]_vars

\* a retry is out with the bearer token of call time although storage has
\* since lost it
C15_RetryCarriesCallTimeToken ==
  /\ pc = "retried"
  /\ sends = 2
  /\ hdrAuth \in AuthTokens
  /\ authToken = NoToken

\* the step in which fetchUser() ends without an admin user
FetchUserTeardown ==
  /\ caller = "fetchUser"
  /\ pc \notin Terminal
  /\ pc' \in Terminal
  /\ ~(outcome'.kind = "returned" /\ outcome'.val = "admin")

\* C16: logout() leaves storage without auth_token and refresh_token and
\* the store with no user and unauthenticated; and a step that removes a
\* stored auth_token or refresh_token is a logout or the teardown at the
\* end of a fetchUser(): no other step of apiRequest, of login() or of
\* the store does it.
C16_LogoutClearsOnlyLogoutRemoves ==
  [][ /\ logout => /\ authToken' = NoToken
                   /\ refreshToken' = NoToken
                   /\ user' = "null"
                   /\ isAuthenticated' = FALSE
      /\ apiLogout => (authToken' = NoToken /\ refreshToken' = NoToken)
      /\ (authToken # NoToken /\ authToken' = NoToken)
           => (logout \/ apiLogout \/ FetchUserTeardown)
      /\ (refreshToken # NoToken /\ refreshToken' = NoToken)
           => (logout \/ apiLogout \/ FetchUserTeardown) ]_vars

\* logout() ran while a fetchUser() that went out with a bearer token is
\* still waiting for its response
C16_LoggedOutWhileFetching ==
  /\ pc = "sent"
  /\ caller = "fetchUser"
  /\ hdrAuth \in AuthTokens
  /\ authToken = NoToken
  /\ refreshToken = NoToken
  /\ user = "null"
  /\ isAuthenticated = FALSE

\* the status page shows or awaits work of its own: a fetch in flight
StatusInFlight == loading \/ refreshing \/ fetches > 0

\* C17 (as claimed): on every page with a polling timer a tick issues a
\* fetch only if the page state at that tick shows work still in flight:
\* on the E2E page exactly when a loaded result is 'running', on the status
\* page only while a fetch of the page is under way.
C17_TickFetchesOnlyWhenInFlight ==
  [][ /\ e2e_tick => (fetches' = fetches + 1 <=> hasRunningTests(testResults))
      /\ status_tick => (fetches' = fetches + 1 => StatusInFlight) ]_vars

\* C17 (amended): a tick of the E2E page's timer, which runs only while
\* auto-refresh is on, issues a fetch exactly when a loaded result is
\* 'running' and otherwise requests nothing and leaves loading alone; a
\* tick of the status page's timer, which runs only while auto-refresh is
\* on, always issues a fetch.
C17_E2ETickGatedStatusTickAlways ==
  [][ /\ e2e_tick =>
           /\ autoRefresh
           /\ fetches' = fetches + 1 <=> hasRunningTests(testResults)
           /\ ~hasRunningTests(testResults) => UNCHANGED <<fetches, loading, pageError>>
      /\ status_tick => (autoRefresh /\ fetches' = fetches + 1) ]_vars

\* a tick of the E2E page found a running test and fetched
C17_TickFetchedForRunningTest ==
  /\ mounted = "e2e-tests"
  /\ autoRefresh
  /\ lastTick = "fetched"
  /\ hasRunningTests(testResults)
  /\ loading
  /\ fetches >= 1

\* 1 <= page <= max(1, totalPages)
PageInRange(pg, t) ==
  /\ 1 <= pg
  /\ pg <= (IF totalPages(t) > 1 THEN totalPages(t) ELSE 1)

\* C18: on the users page totalPages is the ceiling of total / 20; Next
\* can be clicked only while page < totalPages and adds one, Previous
\* only while page > 1 and subtracts one; neither changes total, so a
\* click taken with 1 <= page <= max(1, totalPages) leaves page in that
\* range.
C18_ClicksKeepPageInRange ==
  [][ /\ totalPages(total) * 20 >= total
      /\ (totalPages(total) - 1) * 20 < total
      /\ (nextDisabled(page, total) <=> page >= totalPages(total))
      /\ users_next => (page < totalPages(total) /\ page' = page + 1 /\ total' = total)
      /\ users_previous => (page > 1 /\ page' = page - 1 /\ total' = total)
      /\ ((users_next \/ users_previous) /\ PageInRange(page, total))
           => PageInRange(page', total') ]_vars

\* Next was clicked up to the last of several pages, where it is disabled
C18_OnLastPage ==
  /\ mounted = "users"
  /\ total > 20
  /\ page >= 2
  /\ page = totalPages(total)
  /\ nextDisabled(page, total)
  /\ paginationShown

\* C19: on the E2E page and on the users page a busy flag that a request
\* of the page has raised (loading, running, clearing, the dialog's
\* isLoading) is lowered again once the request has failed or returned, so
\* while the page stays mounted every raised flag eventually is false.
C19_BusyFlagsReturnToFalse ==
  /\ (mounted = "e2e-tests" /\ loading) ~> (mounted # "e2e-tests" \/ ~loading)
  /\ (mounted = "e2e-tests" /\ running) ~> (mounted # "e2e-tests" \/ ~running)
  /\ (mounted = "e2e-tests" /\ clearing) ~> (mounted # "e2e-tests" \/ ~clearing)
  /\ (mounted = "e2e-tests" /\ confirmModal.isLoading)
       ~> (mounted # "e2e-tests" \/ ~confirmModal.isLoading)
  /\ (mounted = "users" /\ loading) ~> (mounted # "users" \/ ~loading)

\* a request of the E2E page has failed, nothing is in flight, and every
\* busy flag is down
C19_FailedAndIdle ==
  /\ mounted = "e2e-tests"
  /\ pageError
  /\ fetches = 0
  /\ ~runPending
  /\ clearStage = "none"
  /\ ~loading
  /\ ~running
  /\ ~clearing
  /\ ~confirmModal.isLoading

\* C20: the admin layout renders the children of a protected route only
\* when the admin check of the current navigation has succeeded: a token is
\* stored and the fetchUser() of that check left an admin user in the
\* store; after a navigation whose check failed they are not rendered.
C20_ChildrenOnlyAfterCheck ==
  rendersProtectedChildren =>
    /\ check = "passed"
    /\ authToken # NoToken
    /\ user = "admin"

\* C21: whenever the store is authenticated an auth_token is in
\* localStorage, also when logout() ran while a login() or a fetchUser() was
\* waiting for its response.
C21_AuthenticatedHasToken == isAuthenticated => authToken # NoToken

C23_GetSentOnceWithoutCsrf ==
  (method = "GET") =>
    /\ sends <= 1
    /\ hdrCsrf = Absent
    /\ pc \notin {"csrfFetch", "retried"}
    /\ ~warned
    /\ retryResp = NoResp
    /\ (Over /\ Csrf403(firstResp)) => (sends = 1 /\ outcome = Thrown("backend-detail"))

\* a GET was rejected for CSRF, a token was at hand, and the call threw
\* after its one send
C23_GetRejectedNotRetried ==
  /\ pc = "failed"
  /\ method = "GET"
  /\ Csrf403(firstResp)
  /\ newToken # Absent
  /\ sends = 1
  /\ outcome = Thrown("backend-detail")

\* C24: a 2xx response to the retry gives the call the value that the same
\* response would give as the answer to the first send: the parsed JSON of
\* its body, and the empty object, not a throw, when the body is empty or
\* is not JSON.
C24_RetrySuccessLikeFirst ==
  [][ \A resp \in OkResponses :
        apiRequest_retryResponse(resp) =>
          /\ outcome' = successValue(resp)
          /\ resp.body \in {"empty", "garbage"} => outcome' = Returned("emptyobj") ]_vars

\* C25: on the users page, once no fetchUsers() is in flight (and none has
\* failed), the displayed list and total are those of the response to the
\* query issued last, in whatever order the responses arrived.
C25_LatestQueryShown ==
  (mounted = "users" /\ fetches = 0 /\ ~pageError) => users = "latest"

\* C26: on the users page, a click on Confirm in the dialog that a row
\* action opened issues one mutating request, and that request targets the
\* user whose row was clicked (the actionUserId the dialog was opened for),
\* whatever dialogs were opened, cancelled or failed before.
C26_ConfirmTargetsClickedRow ==
  [][ users_onConfirm =>
        /\ actionUserId # NoUser
        /\ lastConfirm' = "sent"
        /\ actionTarget' = actionUserId ]_vars

C28_ListenersMirrorQueue ==
  [][ /\ \A c \in subscribed(toastListeners') : toastState'[c] = toasts'
      /\ \A i, j \in 1..Len(toasts') : i < j => toasts'[i].id < toasts'[j].id
      /\ \A i \in 1..Len(toasts') : toasts'[i].id <= toastIdCounter'
      /\ \A id \in 1..MaxPublished :
           removeToast(id) =>
             /\ \A i \in 1..Len(toasts') : toasts'[i].id # id
             /\ Len(toasts') =
                  Len(toasts) - (IF \E i \in 1..Len(toasts) : toasts[i].id = id
                                 THEN 1 ELSE 0)
             /\ \A i \in 1..Len(toasts) :
                  toasts[i].id # id => \E k \in 1..Len(toasts') : toasts'[k] = toasts[i] ]_vars

\* two components listen; the toast published in the middle was removed and
\* both show the two that are left
C28_MiddleToastRemoved ==
  /\ Len(toastListeners) = 2
  /\ toastIdCounter = 3
  /\ Len(toasts) = 2
  /\ toasts[1].id = 1
  /\ toasts[2].id = 3
  /\ \A c \in Components : c \in subscribed(toastListeners) => toastState[c] = toasts

\* C29 (as claimed): when the login call is answered non-2xx, login() sets
\* error to the detail of the backend's error body, or to 'Login failed'
\* when there is none, sets isLoading to false, leaves user,
\* isAuthenticated and the stored tokens as they are, and rejects.
C29_FailedLoginSetsDetailOrDefault ==
  [][ \A res \in LoginResults :
        (login_response(res) /\ res.kind = "notok") =>
          /\ error' = (IF res.detail \in {"csrf", "other", "object"}
                       THEN "backend-detail" ELSE "Login failed")
          /\ isLoading' = FALSE
          /\ UNCHANGED <<user, isAuthenticated, authToken, refreshToken>>
          /\ loginResult' = "rejected" ]_vars

\* C29 (amended): when the login call is answered non-2xx, login() sets
\* error to the detail of the error body when the body is JSON with a
\* detail, to the synthesized "HTTP <status>: <statusText>" when the body
\* is not JSON, and to 'Login failed' when the body is JSON without a
\* detail; it sets isLoading to false, leaves user, isAuthenticated, the
\* stored tokens and the cached CSRF token as they are, and rejects.
C29_FailedLoginSetsDetailStatusOrDefault ==
  [][ \A res \in LoginResults :
        (login_response(res) /\ res.kind = "notok") =>
          /\ error' = (CASE res.detail \in {"csrf", "other", "object"} -> "backend-detail"
                         [] res.detail = "nojson" -> "http-status"
                         [] OTHER -> "Login failed")
          /\ isLoading' = FALSE
          /\ UNCHANGED <<user, isAuthenticated, authToken, refreshToken, sessCsrf>>
          /\ loginResult' = "rejected" ]_vars

\* a signed-in admin's second login() was answered non-2xx with a body that
\* is not JSON: the session is as before, the error is the status line
C29_RejectedWithStatusLine ==
  /\ loginResult = "rejected"
  /\ error = "http-status"
  /\ ~isLoading
  /\ ~loginPending
  /\ isAuthenticated
  /\ user = "admin"
  /\ authToken # NoToken

\* C30: when getCsrfToken() takes the token from document.cookie (nothing
\* is cached and a csrf_token cookie exists), the value it caches and the
\* value sent in X-CSRF-Token are the complete value of the cookie, also
\* for a value that contains '='.
C30_CookieValueReadInFull ==
  [][ /\ (pc = "idle" /\ pc' # "idle" /\ Mutating(method')
            /\ sessCsrf = Absent /\ cookie # Absent)
          => (sessCsrf' = cookie /\ hdrCsrf' = cookie)
      /\ (sessCsrf = Absent /\ cookie # Absent
            /\ getCsrfToken(sessCsrf, cookie).token # Absent)
          => getCsrfToken(sessCsrf, cookie) = [token |-> cookie, sess |-> cookie] ]_vars

====
